---- MODULE Spec2Model ----
(***************************************************************************)
(* A model of scripts/pixel_pusher_gen.py: the procedural 32x32 sprite     *)
(* generator.  A prompt is a Python str, modelled as a sequence of Unicode *)
(* code points; the colour and shape resolvers are operators computed the  *)
(* way the code computes them (lower-casing, substring tests in source     *)
(* order, MD5 of the UTF-8 encoding for the fallback colour), and one run  *)
(* of the script is a state machine with one step per statement of the     *)
(* __main__ block and of generate_image.                                   *)
(***************************************************************************)
EXTENDS Integers, Sequences, FiniteSets, TLC

VARIABLES
    argv,       \* sys.argv: <<script, positional arguments...>>
    pc,         \* the statement the run is at
    img,        \* the canvas: its mode, size, initial fill and the draw calls on it
    color,      \* generate_image's local `color` (<<>> before line 70)
    shape,      \* generate_image's local `shape` ("unset" before line 71)
    file,       \* the canvases written to the output path, in order
    saves,      \* number of img.save calls issued so far
    stdout,     \* the lines printed so far
    stderr,     \* the tracebacks of uncaught exceptions
    status      \* the exit status: "running", "0" or "1"

vars == <<argv, pc, img, color, shape, file, saves, stdout, stderr, status>>

-----------------------------------------------------------------------------
(* Text: a str is a sequence of code points.                               *)

\* A lone surrogate, as os.fsdecode (surrogateescape) makes of an argv
\* byte 0xFF that is not valid UTF-8.
Surrogate == <<56575>>

\* U+00C9 LATIN CAPITAL LETTER E WITH ACUTE, a cased non-ASCII character.
EAcute == <<201>>

\* str.lower() of one code point, for the code points below U+0100 and the
\* surrogates: A-Z and the cased Latin-1 capitals move up by 32.
LowerChar(c) ==
    IF c >= 65 /\ c <= 90 THEN c + 32
    ELSE IF c >= 192 /\ c <= 222 /\ c # 215 THEN c + 32
    ELSE c

\* str.lower(): a new str, built once.
Lower(s) == [i \in 1..Len(s) |-> LowerChar(s[i])] \o <<>>

\* str.upper() of one code point, used only to build mixed-case inputs.
UpperChar(c) ==
    IF c >= 97 /\ c <= 122 THEN c - 32
    ELSE IF c >= 224 /\ c <= 254 /\ c # 247 THEN c - 32
    ELSE c

Upper(s) == [i \in 1..Len(s) |-> UpperChar(s[i])] \o <<>>

\* `kw in s` for two strs: kw occurs as a contiguous substring of s.
Contains(s, kw) ==
    \E i \in 0..(Len(s) - Len(kw)) :
        \A j \in 1..Len(kw) : s[i + j] = kw[j]

\* Whether str.encode() (UTF-8, strict) accepts the code point.
Encodable(c) == ~(c >= 55296 /\ c <= 57343)

\* The UTF-8 bytes of one code point below U+10000.
Utf8Char(c) ==
    IF c < 128 THEN <<c>>
    ELSE IF c < 2048 THEN <<192 + (c \div 64), 128 + (c % 64)>>
    ELSE <<224 + (c \div 4096), 128 + ((c \div 64) % 64), 128 + (c % 64)>>

RECURSIVE Utf8Range(_, _, _)
\* The UTF-8 bytes of the code points s[lo..hi], in order.
Utf8Range(s, lo, hi) ==
    IF lo > hi THEN <<>>
    ELSE IF lo = hi THEN Utf8Char(s[lo])
    ELSE LET mid == (lo + hi) \div 2
         IN  Utf8Range(s, lo, mid) \o Utf8Range(s, mid + 1, hi)

\* str.encode() of a str all of whose code points are encodable.
Utf8(s) == Utf8Range(s, 1, Len(s))

-----------------------------------------------------------------------------
(* hashlib.md5: RFC 1321.  A 32-bit word is a pair <<hi, lo>> of 16-bit    *)
(* halves, so that no intermediate value leaves the range of an int.       *)

Pow2(n) == 2 ^ n

\* x + y mod 2^32
Add32(x, y) ==
    <<(x[1] + y[1] + ((x[2] + y[2]) \div 65536)) % 65536, (x[2] + y[2]) % 65536>>

\* x rotated left by n bits, 0 <= n < 16
RotlSmall(x, n) ==
    <<((x[1] * Pow2(n)) % 65536) + (x[2] \div Pow2(16 - n)),
      ((x[2] * Pow2(n)) % 65536) + (x[1] \div Pow2(16 - n))>>

\* x rotated left by n bits, 0 <= n < 32
Rotl32(x, n) == IF n >= 16 THEN RotlSmall(<<x[2], x[1]>>, n - 16) ELSE RotlSmall(x, n)

\* One bit of the round function of round r (0: F, 1: G, 2: H, 3: I).
MixBit(r, b, c, d) ==
    CASE r = 0 -> IF b = 1 THEN c ELSE d            \* (b & c) | (~b & d)
      [] r = 1 -> IF d = 1 THEN b ELSE c            \* (b & d) | (c & ~d)
      [] r = 2 -> (b + c + d) % 2                   \* b ^ c ^ d
      [] r = 3 -> (c + (IF b = 1 \/ d = 0 THEN 1 ELSE 0)) % 2   \* c ^ (b | ~d)

RECURSIVE MixBits(_, _, _, _, _)
\* The round function of round r on the low n bits of b, c and d.
MixBits(r, b, c, d, n) ==
    IF n = 0 THEN 0
    ELSE MixBit(r, b % 2, c % 2, d % 2)
         + 2 * MixBits(r, b \div 2, c \div 2, d \div 2, n - 1)

\* The round functions tabulated on 4-bit values: entry
\* 1 + 4096 r + 256 b + 16 c + d is round r's function of b, c, d.
MixTable ==
    [i \in 1..16384 |->
        MixBits((i - 1) \div 4096, ((i - 1) \div 256) % 16,
                ((i - 1) \div 16) % 16, (i - 1) % 16, 4)] \o <<>>

MixNibble(r, b, c, d) == MixTable[1 + 4096 * r + 256 * b + 16 * c + d]

\* The round function of round r on three 16-bit halves.
Mix16(r, b, c, d) ==
    MixNibble(r, b % 16, c % 16, d % 16)
    + 16 * MixNibble(r, (b \div 16) % 16, (c \div 16) % 16, (d \div 16) % 16)
    + 256 * MixNibble(r, (b \div 256) % 16, (c \div 256) % 16, (d \div 256) % 16)
    + 4096 * MixNibble(r, b \div 4096, c \div 4096, d \div 4096)

Mix32(r, b, c, d) ==
    <<Mix16(r, b[1], c[1], d[1]), Mix16(r, b[2], c[2], d[2])>>

\* floor(abs(sin(i + 1)) * 2^32) for i = 0..63
Md5K == <<
    <<55146, 42104>>, <<59591, 46934>>, <<9248, 28891>>, <<49597, 52974>>,
    <<62844, 4015>>, <<18311, 50730>>, <<43056, 17939>>, <<64838, 38145>>,
    <<27008, 39128>>, <<35652, 63407>>, <<65535, 23473>>, <<35164, 55230>>,
    <<27536, 4386>>, <<64920, 29075>>, <<42617, 17294>>, <<18868, 2081>>,
    <<63006, 9570>>, <<49216, 45888>>, <<9822, 23121>>, <<59830, 51114>>,
    <<54831, 4189>>, <<580, 5203>>, <<55457, 59009>>, <<59347, 64456>>,
    <<8673, 52710>>, <<49975, 2006>>, <<62677, 3463>>, <<17754, 5357>>,
    <<43491, 59653>>, <<64751, 41976>>, <<26479, 729>>, <<36138, 19594>>,
    <<65530, 14658>>, <<34673, 63105>>, <<28061, 24866>>, <<64997, 14348>>,
    <<42174, 59972>>, <<19422, 53161>>, <<63163, 19296>>, <<48831, 48240>>,
    <<10395, 32454>>, <<60065, 10234>>, <<54511, 12421>>, <<1160, 7429>>,
    <<55764, 53305>>, <<59099, 39397>>, <<8098, 31992>>, <<50348, 22117>>,
    <<62505, 8772>>, <<17194, 65431>>, <<43924, 9127>>, <<64659, 41017>>,
    <<25947, 22979>>, <<36620, 52370>>, <<65519, 62589>>, <<34180, 24017>>,
    <<28584, 32335>>, <<65068, 59104>>, <<41729, 17172>>, <<19976, 4513>>,
    <<63315, 32386>>, <<48442, 62005>>, <<10967, 53947>>, <<60294, 54161>> >>

\* The per-round rotation amounts, four per round.
Md5S == << <<7, 12, 17, 22>>, <<5, 9, 14, 20>>, <<4, 11, 16, 23>>, <<6, 10, 15, 21>> >>

\* The index of the message word step i reads.
Md5G(i) ==
    CASE i < 16 -> i
      [] i >= 16 /\ i < 32 -> (5 * i + 1) % 16
      [] i >= 32 /\ i < 48 -> (3 * i + 5) % 16
      [] i >= 48 -> (7 * i) % 16

\* The initial chaining value A, B, C, D.
Md5Init ==
    << <<26437, 8961>>, <<61389, 43913>>, <<39098, 56574>>, <<4146, 21622>> >>

\* Step i of the compression of the 16-word block m, on the state
\* st = <<A, B, C, D>>: the word F + A + K[i] + M[g] that is rotated.
Md5F(st, m, i) ==
    Add32(Add32(Add32(Mix32(i \div 16, st[2], st[3], st[4]), st[1]),
                Md5K[i + 1]), m[Md5G(i) + 1])

\* Step i: the state <<D, B + rotl(F, s[i]), B, C>>.
Md5Step(st, m, i) ==
    <<st[4],
      Add32(st[2], Rotl32(Md5F(st, m, i), Md5S[(i \div 16) + 1][(i % 4) + 1])),
      st[2],
      st[3]>>

RECURSIVE Md5Steps(_, _, _, _)
\* Steps lo..hi from the state `half` that the steps before lo have left;
\* the test makes `half` be evaluated before the steps that read it start.
Md5StepsAfter(half, m, lo, hi) ==
    IF Len(half) = 4 THEN Md5Steps(half, m, lo, hi) ELSE half

\* Steps lo..hi, in order, of the compression of block m from state st.  The
\* range is halved, which keeps the evaluation shallow.
Md5Steps(st, m, lo, hi) ==
    IF lo = hi THEN Md5Step(st, m, lo)
    ELSE Md5StepsAfter(Md5Steps(st, m, lo, (lo + hi) \div 2), m,
                       ((lo + hi) \div 2) + 1, hi)

\* The message with its padding: 0x80, zeros up to 56 mod 64, and the bit
\* length as a 64-bit little-endian integer (messages below 2^24 bytes).
Md5Pad(bytes) ==
    bytes \o <<128>> \o [i \in 1..((119 - Len(bytes)) % 64) |-> 0]
    \o <<(8 * Len(bytes)) % 256, ((8 * Len(bytes)) \div 256) % 256,
         ((8 * Len(bytes)) \div 65536) % 256,
         ((8 * Len(bytes)) \div 16777216) % 256, 0, 0, 0, 0>>

\* The k-th (from 0) little-endian 32-bit word of block b (from 0) of p.
Md5Word(p, b, k) ==
    <<p[64 * b + 4 * k + 3] + 256 * p[64 * b + 4 * k + 4],
      p[64 * b + 4 * k + 1] + 256 * p[64 * b + 4 * k + 2]>>

\* The 16 words of block b (from 0) of the padded message p.
Md5BlockWords(p, b) == [k \in 1..16 |-> Md5Word(p, b, k - 1)] \o <<>>

\* The chaining value st with the result st2 of the 64 steps added to it.
Md5AddState(st, st2) ==
    <<Add32(st[1], st2[1]), Add32(st[2], st2[2]),
      Add32(st[3], st2[3]), Add32(st[4], st2[4])>>

\* The compression of block b (from 0) of the padded message p from state st.
Md5Compress(st, p, b) ==
    Md5AddState(st, Md5Steps(st, Md5BlockWords(p, b), 0, 63))

RECURSIVE Md5Blocks(_, _)
\* The chaining value after the first n blocks of the padded message p.
Md5Blocks(p, n) ==
    IF n = 0 THEN Md5Init ELSE Md5Compress(Md5Blocks(p, n - 1), p, n - 1)

\* The four bytes of a word, little-endian.
WordBytes(w) == <<w[2] % 256, w[2] \div 256, w[1] % 256, w[1] \div 256>>

\* The 16 bytes of the chaining value <<A, B, C, D>>.
StateBytes(st) ==
    WordBytes(st[1]) \o WordBytes(st[2]) \o WordBytes(st[3]) \o WordBytes(st[4])

\* The chaining value after every block of the padded message p.
Md5Final(p) == Md5Blocks(p, Len(p) \div 64)

\* hashlib.md5(bytes).digest()
Md5Digest(bytes) == StateBytes(Md5Final(Md5Pad(bytes)))

\* The hex string of the bytes d, each hex character given as its value.
Hex(d) ==
    [i \in 1..(2 * Len(d)) |-> IF i % 2 = 1 THEN d[(i + 1) \div 2] \div 16
                                             ELSE d[i \div 2] % 16] \o <<>>

\* hashlib.md5(bytes).hexdigest()
HexDigest(bytes) == Hex(Md5Digest(bytes))

\* int(h[a:a+2], 16) for a hex string h and a 0-based offset a.
HexByte(h, a) == 16 * h[a + 1] + h[a + 2]

-----------------------------------------------------------------------------
(* The keywords the resolvers test for, as strs.                           *)

kw_rusty == <<114, 117, 115, 116, 121>>    \* "rusty"
kw_brown == <<98, 114, 111, 119, 110>>    \* "brown"
kw_silver == <<115, 105, 108, 118, 101, 114>>    \* "silver"
kw_basic == <<98, 97, 115, 105, 99>>    \* "basic"
kw_grey == <<103, 114, 101, 121>>    \* "grey"
kw_golden == <<103, 111, 108, 100, 101, 110>>    \* "golden"
kw_gold == <<103, 111, 108, 100>>    \* "gold"
kw_coin == <<99, 111, 105, 110>>    \* "coin"
kw_ray_gun == <<114, 97, 121, 32, 103, 117, 110>>    \* "ray gun"
kw_blacksmith == <<98, 108, 97, 99, 107, 115, 109, 105, 116, 104>>    \* "blacksmith"
kw_explorer == <<101, 120, 112, 108, 111, 114, 101, 114>>    \* "explorer"
kw_merchant == <<109, 101, 114, 99, 104, 97, 110, 116>>    \* "merchant"
kw_gambler == <<103, 97, 109, 98, 108, 101, 114>>    \* "gambler"
kw_farmer == <<102, 97, 114, 109, 101, 114>>    \* "farmer"
kw_scholar == <<115, 99, 104, 111, 108, 97, 114>>    \* "scholar"
kw_lootbox == <<108, 111, 111, 116, 98, 111, 120>>    \* "lootbox"
kw_box == <<98, 111, 120>>    \* "box"
kw_money == <<109, 111, 110, 101, 121>>    \* "money"
kw_gun == <<103, 117, 110>>    \* "gun"
kw_blaster == <<98, 108, 97, 115, 116, 101, 114>>    \* "blaster"

\* Words that are no keyword.
w_a == <<97>>    \* "a"
w_extra == <<101, 120, 116, 114, 97>>     \* "extra"
w_ray == <<114, 97, 121>>    \* "ray"

-----------------------------------------------------------------------------
(* get_color (lines 6-34).  The result of a call is a record: what it      *)
(* raised ("none" for a normal return) and the value it returned.          *)

Returned(v) == [raised |-> "none", value |-> v]
Raised(e)   == [raised |-> e, value |-> <<>>]

\* The conditions of lines 8, 10, 12, 14, on the lower-cased prompt p.
IsBrown(p)  == Contains(p, kw_rusty) \/ Contains(p, kw_brown)
IsSilver(p) == Contains(p, kw_silver) \/ Contains(p, kw_basic) \/ Contains(p, kw_grey)
\* A third group that does not hold "coin".
IsGoldWithoutCoin(p) == Contains(p, kw_golden) \/ Contains(p, kw_gold)

IsGold(p)   == Contains(p, kw_golden) \/ Contains(p, kw_gold) \/ Contains(p, kw_coin)
IsRayGun(p) == Contains(p, kw_ray_gun)

\* A fifth group that holds no keyword.
NoKeyword(p) == FALSE

\* The condition of line 16.
IsBlacksmith(p) == Contains(p, kw_blacksmith)

\* prompt.encode() of line 30 raises UnicodeEncodeError on a surrogate.
AllEncodable(p) == \A i \in 1..Len(p) : Encodable(p[i])

\* Lines 31-34: the colour read off the hex digest h.
HexColor(h) == <<HexByte(h, 0), HexByte(h, 2), HexByte(h, 4), 255>>

\* Lines 29-34: the colour made of the first three bytes of the MD5 digest.
HashColor(p) ==
    IF ~AllEncodable(p) THEN Raised("UnicodeEncodeError")
    ELSE Returned(HexColor(HexDigest(Utf8(p))))

\* Lines 8-34: the chain of tests on the lower-cased prompt p.
ColorOf(p) ==
    IF IsBrown(p) THEN Returned(<<139, 69, 19, 255>>)
    ELSE IF IsSilver(p) THEN Returned(<<192, 192, 192, 255>>)
    ELSE IF IsGold(p) THEN Returned(<<255, 215, 0, 255>>)
    ELSE IF IsRayGun(p) THEN Returned(<<255, 0, 0, 255>>)
    ELSE IF IsBlacksmith(p) THEN Returned(<<105, 105, 105, 255>>)
    ELSE IF Contains(p, kw_explorer) THEN Returned(<<34, 139, 34, 255>>)
    ELSE IF Contains(p, kw_merchant) THEN Returned(<<70, 130, 180, 255>>)
    ELSE IF Contains(p, kw_gambler) THEN Returned(<<128, 0, 128, 255>>)
    ELSE IF Contains(p, kw_farmer) THEN Returned(<<154, 205, 50, 255>>)
    ELSE IF Contains(p, kw_scholar) THEN Returned(<<65, 105, 225, 255>>)
    ELSE HashColor(p)

\* A resolution that does not lower-case the prompt.
get_color_cased(prompt) == ColorOf(prompt)

get_color(prompt) == ColorOf(Lower(prompt))

-----------------------------------------------------------------------------
(* get_shape (lines 54-64).                                                *)

\* The conditions of lines 56, 58, 60, 62, on the lower-cased prompt p.
IsBox(p)    == Contains(p, kw_lootbox) \/ Contains(p, kw_box)
IsCircle(p) == Contains(p, kw_coin) \/ Contains(p, kw_money)
IsGun(p)    == Contains(p, kw_gun) \/ Contains(p, kw_blaster)
IsPerson(p) ==
    \E x \in {kw_blacksmith, kw_explorer, kw_merchant, kw_gambler, kw_farmer,
              kw_scholar} : Contains(p, x)

\* A chain that tests the circle keywords before the box keywords.
ShapeOfCircleFirst(p) ==
    IF IsCircle(p) THEN "circle"
    ELSE IF IsBox(p) THEN "box"
    ELSE IF IsGun(p) THEN "gun"
    ELSE IF IsPerson(p) THEN "person"
    ELSE "default"

\* Lines 56-64: the chain of tests on the lower-cased prompt p.
ShapeOf(p) ==
    IF IsBox(p) THEN "box"
    ELSE IF IsCircle(p) THEN "circle"
    ELSE IF IsGun(p) THEN "gun"
    ELSE IF IsPerson(p) THEN "person"
    ELSE "default"

get_shape(prompt) == ShapeOf(Lower(prompt))

-----------------------------------------------------------------------------
(* draw_shape (lines 36-52): the draw calls it issues, in order.  A call   *)
(* is a record; fill = <<>> is fill=None.                                  *)

Black     == <<0, 0, 0, 255>>
Highlight == <<255, 255, 255, 100>>
Skin      == <<255, 220, 177, 255>>

Rectangle(xy, fill, outline) ==
    [op |-> "rectangle", xy |-> xy, fill |-> fill, outline |-> outline]
Ellipse(xy, fill, outline) ==
    [op |-> "ellipse", xy |-> xy, fill |-> fill, outline |-> outline]
Polygon(xy, fill, outline) ==
    [op |-> "polygon", xy |-> xy, fill |-> fill, outline |-> outline]

\* A draw_shape that fills the head of a person with the colour.
draw_shape_tinted(shape_type, c) ==
    IF shape_type = "box" THEN
        <<Rectangle(<<4, 4, 27, 27>>, c, Black),
          Rectangle(<<6, 6, 25, 25>>, <<>>, Highlight)>>
    ELSE IF shape_type = "circle" THEN
        <<Ellipse(<<4, 4, 27, 27>>, c, Black),
          Ellipse(<<8, 8, 20, 20>>, <<>>, Highlight)>>
    ELSE IF shape_type = "gun" THEN
        <<Polygon(<< <<8, 10>>, <<24, 10>>, <<24, 16>>, <<14, 16>>, <<14, 24>>, <<8, 24>> >>,
                  c, Black)>>
    ELSE IF shape_type = "person" THEN
        <<Ellipse(<<10, 4, 22, 16>>, c, Black),
          Rectangle(<<8, 16, 24, 30>>, c, Black)>>
    ELSE
        <<Rectangle(<<8, 8, 24, 24>>, c, Black)>>

\* Lines 36-52.
draw_shape(shape_type, c) ==
    IF shape_type = "box" THEN
        <<Rectangle(<<4, 4, 27, 27>>, c, Black),
          Rectangle(<<6, 6, 25, 25>>, <<>>, Highlight)>>
    ELSE IF shape_type = "circle" THEN
        <<Ellipse(<<4, 4, 27, 27>>, c, Black),
          Ellipse(<<8, 8, 20, 20>>, <<>>, Highlight)>>
    ELSE IF shape_type = "gun" THEN
        <<Polygon(<< <<8, 10>>, <<24, 10>>, <<24, 16>>, <<14, 16>>, <<14, 24>>, <<8, 24>> >>,
                  c, Black)>>
    ELSE IF shape_type = "person" THEN
        <<Ellipse(<<10, 4, 22, 16>>, Skin, Black),
          Rectangle(<<8, 16, 24, 30>>, c, Black)>>
    ELSE
        <<Rectangle(<<8, 8, 24, 24>>, c, Black)>>

-----------------------------------------------------------------------------
(* The inputs of a run.                                                    *)

\* The most words a generated prompt is made of.
MaxWords == 2

\* The most positional arguments given beyond <output_path> <prompt>.
MaxExtra == 1

Vocabulary ==
    {kw_rusty, kw_brown, kw_silver, kw_basic, kw_grey, kw_golden, kw_gold,
     kw_coin, kw_ray_gun, kw_blacksmith, kw_explorer, kw_merchant, kw_gambler,
     kw_farmer, kw_scholar, kw_lootbox, kw_box, kw_money, kw_gun, kw_blaster,
     w_a, w_ray, EAcute, Surrogate}

RECURSIVE Join(_)
\* " ".join(ws)
Join(ws) ==
    IF ws = <<>> THEN <<>>
    ELSE IF Len(ws) = 1 THEN ws[1]
    ELSE ws[1] \o <<32>> \o Join(Tail(ws))

\* The prompt with its first character in upper case.
Capitalized(s) == [i \in 1..Len(s) |-> IF i = 1 THEN UpperChar(s[i]) ELSE s[i]]

\* A prompt as typed: in lower case, in upper case, or capitalized.
Cases == {"lower", "upper", "capitalized"}
Cased(c, s) ==
    CASE c = "lower" -> s
      [] c = "upper" -> Upper(s)
      [] c = "capitalized" -> Capitalized(s)

\* The prompts the spec's examples name.
Examples ==
    {Join(<<w_a, kw_rusty, kw_coin>>), Join(<<kw_golden, kw_lootbox>>),
     Join(<<kw_golden, kw_gun>>), Join(<<kw_rusty, kw_blacksmith>>), <<>>}

Script == "pixel_pusher_gen.py"
OutputPaths == {"out.png"}

\* sys.argv with the positional arguments o, p and n more.
Argv(o, p, n) == <<Script, o, p>> \o [i \in 1..n |-> w_extra]

-----------------------------------------------------------------------------
(* One run of the script.                                                  *)

\* generate_image's parameters, bound at lines 87-90.
\* A prompt taken from the last argument.
LastArg == argv[Len(argv)]

OutputPath == argv[2]
Prompt     == argv[3]

NoColor == <<>>
NoShape == "unset"
NoImage == [mode |-> "none", size |-> <<>>, fill |-> <<>>, ops |-> <<>>]

\* Image.new('RGBA', (32, 32), (0, 0, 0, 0))
NewCanvas == [mode |-> "RGBA", size |-> <<32, 32>>, fill |-> <<0, 0, 0, 0>>, ops |-> <<>>]

UsageLine == [text |-> "Usage", path |-> "", prompt |-> <<>>, shape |-> "", color |-> <<>>]
GeneratedLine(o, p, sh, c) ==
    [text |-> "Generated", path |-> o, prompt |-> p, shape |-> sh, color |-> c]

\* An uncaught exception: the traceback names it and the line that raised.
Traceback(e, line) == [exc |-> e, line |-> line]

\* sys.argv holds the script, then no positional argument, or one, or an
\* output path, a prompt and at most MaxExtra more.
Init ==
    /\ \/ argv = <<Script>>
       \/ \E o \in OutputPaths : argv = <<Script, o>>
       \/ \E o \in OutputPaths, n \in 0..MaxExtra :
            \/ \E p \in Examples : argv = Argv(o, p, n)
            \/ \E k \in 0..MaxWords : \E ws \in [1..k -> Vocabulary] : \E c \in Cases :
                  argv = Argv(o, Cased(c, Join(ws)), n)
    /\ pc = "main"
    /\ img = NoImage
    /\ color = NoColor
    /\ shape = NoShape
    /\ file = <<>>
    /\ saves = 0
    /\ stdout = <<>>
    /\ stderr = <<>>
    /\ status = "running"

\* A test that lets a run with one positional argument through.
TooFewArgsForPath == Len(argv) < 2

\* The condition of line 83.
TooFewArgs == Len(argv) < 3

\* Lines 83-85: too few arguments.
Usage ==
    /\ pc = "main"
    /\ TooFewArgs
    /\ stdout' = Append(stdout, UsageLine)
    /\ status' = "1"
    /\ pc' = "exit"
    /\ UNCHANGED <<argv, img, color, shape, file, saves, stderr>>

\* Lines 83, 87-90 and 67-68: the arguments are bound and the canvas made.
NewImage ==
    /\ pc = "main"
    /\ ~TooFewArgs
    /\ img' = NewCanvas
    /\ pc' = "get_color"
    /\ UNCHANGED <<argv, color, shape, file, saves, stdout, stderr, status>>

\* Line 70: get_color returns the colour, or raises; the exception is not
\* caught and the run ends.
ResolveColor ==
    /\ pc = "get_color"
    /\ LET res == get_color(Prompt)
       IN  IF res.raised = "none"
           THEN /\ color' = res.value
                /\ pc' = "get_shape"
                /\ UNCHANGED <<stderr, status>>
           ELSE /\ stderr' = Append(stderr, Traceback(res.raised, 30))
                /\ status' = "1"
                /\ pc' = "exit"
                /\ UNCHANGED color
    /\ UNCHANGED <<argv, img, shape, file, saves, stdout>>

\* Line 71.
ResolveShape ==
    /\ pc = "get_shape"
    /\ shape' = get_shape(Prompt)
    /\ pc' = "draw_shape"
    /\ UNCHANGED <<argv, img, color, file, saves, stdout, stderr, status>>

\* A step that skips the drawing.
DrawShapeSkipped ==
    /\ pc = "draw_shape"
    /\ pc' = "save"
    /\ UNCHANGED <<argv, img, color, shape, file, saves, stdout, stderr, status>>

\* Line 73.
DrawShape ==
    /\ pc = "draw_shape"
    /\ img' = [img EXCEPT !.ops = img.ops \o draw_shape(shape, color)]
    /\ pc' = "save"
    /\ UNCHANGED <<argv, color, shape, file, saves, stdout, stderr, status>>

\* Line 79, img.save succeeding: the canvas is stored at the output path.
Save ==
    /\ pc = "save"
    /\ saves' = saves + 1
    /\ file' = Append(file, img)
    /\ pc' = "print"
    /\ UNCHANGED <<argv, img, color, shape, stdout, stderr, status>>

\* Line 79, img.save failing (the path cannot be written, or its extension
\* names no format): the exception is not caught, the run ends.
SaveRaises ==
    /\ pc = "save"
    /\ saves' = saves + 1
    /\ stderr' = Append(stderr, Traceback("OSError", 79))
    /\ status' = "1"
    /\ pc' = "exit"
    /\ UNCHANGED <<argv, img, color, shape, file, stdout>>

\* A confirmation printed with the save still to come.
PrintGeneratedEarly ==
    /\ pc = "save"
    /\ stdout' = Append(stdout, GeneratedLine(OutputPath, Prompt, shape, color))
    /\ pc' = "print"
    /\ UNCHANGED <<argv, img, color, shape, file, saves, stderr, status>>

\* Line 80, then the end of the script: exit status 0.
PrintGenerated ==
    /\ pc = "print"
    /\ stdout' = Append(stdout, GeneratedLine(OutputPath, Prompt, shape, color))
    /\ status' = "0"
    /\ pc' = "exit"
    /\ UNCHANGED <<argv, img, color, shape, file, saves, stderr>>

\* Line 80 raising: a prompt with a surrogate cannot be encoded for a
\* standard output whose error handler is strict (any UTF-8 locale).
PrintRaises ==
    /\ pc = "print"
    /\ ~AllEncodable(Prompt)
    /\ stderr' = Append(stderr, Traceback("UnicodeEncodeError", 80))
    /\ status' = "1"
    /\ pc' = "exit"
    /\ UNCHANGED <<argv, img, color, shape, file, saves, stdout>>

Next ==
    \/ Usage
    \/ NewImage
    \/ ResolveColor
    \/ ResolveShape
    \/ DrawShape
    \/ Save
    \/ SaveRaises
    \/ PrintGenerated
    \/ PrintRaises

Spec == Init /\ [][Next]_vars

-----------------------------------------------------------------------------
(* draw_shape called on its own: on a fresh canvas, with any shape_type    *)
(* (the five tags, and strings that are none of them) and any of a palette *)
(* of colours.                                                             *)

ShapeTypes == {"box", "circle", "gun", "person", "default", "star", ""}

Palette ==
    {<<139, 69, 19, 255>>, <<192, 192, 192, 255>>, <<255, 215, 0, 255>>,
     <<255, 0, 0, 255>>, <<105, 105, 105, 255>>, <<34, 139, 34, 255>>,
     <<70, 130, 180, 255>>, <<128, 0, 128, 255>>, <<154, 205, 50, 255>>,
     <<65, 105, 225, 255>>, <<212, 29, 140, 255>>, <<255, 220, 177, 255>>,
     <<0, 0, 0, 255>>}

InitDraw ==
    /\ argv \in {<<Script, o, <<>> >> : o \in OutputPaths}
    /\ pc = "draw_shape"
    /\ img = NewCanvas
    /\ color \in Palette
    /\ shape \in ShapeTypes
    /\ file = <<>>
    /\ saves = 0
    /\ stdout = <<>>
    /\ stderr = <<>>
    /\ status = "running"

NextDraw == DrawShape

SpecDraw == InitDraw /\ [][NextDraw]_vars

-----------------------------------------------------------------------------
(* The properties.                                                         *)

\* The colour groups in the order of resolution, each with its colour.
ColorGroups ==
    << [kws |-> {kw_rusty, kw_brown},              rgba |-> <<139, 69, 19, 255>>],
       [kws |-> {kw_silver, kw_basic, kw_grey},    rgba |-> <<192, 192, 192, 255>>],
       [kws |-> {kw_golden, kw_gold, kw_coin},     rgba |-> <<255, 215, 0, 255>>],
       [kws |-> {kw_ray_gun},                      rgba |-> <<255, 0, 0, 255>>],
       [kws |-> {kw_blacksmith},                   rgba |-> <<105, 105, 105, 255>>],
       [kws |-> {kw_explorer},                     rgba |-> <<34, 139, 34, 255>>],
       [kws |-> {kw_merchant},                     rgba |-> <<70, 130, 180, 255>>],
       [kws |-> {kw_gambler},                      rgba |-> <<128, 0, 128, 255>>],
       [kws |-> {kw_farmer},                       rgba |-> <<154, 205, 50, 255>>],
       [kws |-> {kw_scholar},                      rgba |-> <<65, 105, 225, 255>>] >>

\* The shape rules in the order of resolution, each with its tag.
ShapeRules ==
    << [kws |-> {kw_lootbox, kw_box}, tag |-> "box"],
       [kws |-> {kw_coin, kw_money},  tag |-> "circle"],
       [kws |-> {kw_gun, kw_blaster}, tag |-> "gun"],
       [kws |-> {kw_blacksmith, kw_explorer, kw_merchant, kw_gambler, kw_farmer,
                 kw_scholar},         tag |-> "person"] >>

Tags == {"box", "circle", "gun", "person", "default"}

\* Some keyword of entry g of the table occurs in the str p.
Matches(table, g, p) == \E k \in table[g].kws : Contains(p, k)

\* The first entry of the table with a keyword occurring in p, 0 if none.
FirstMatch(table, p) ==
    IF \E g \in 1..Len(table) : Matches(table, g, p)
    THEN CHOOSE g \in 1..Len(table) :
            /\ Matches(table, g, p)
            /\ \A h \in 1..(g - 1) : ~Matches(table, h, p)
    ELSE 0

\* The traceback of an exception raised at the given line is on stderr.
RaisedAt(line) == \E i \in 1..Len(stderr) : stderr[i].line = line

\* The run has a prompt: at least two positional arguments were given.
HasPrompt == Len(argv) >= 3

\* C1: when get_color has returned, the colour is the fixed colour of the
\* first group, in the order of resolution, that has a keyword occurring in
\* the lower-cased prompt, whichever later keywords also occur; only when no
\* group matches is it (d0, d1, d2, 255), the first three bytes of the MD5
\* digest of the lower-cased prompt (and only then can get_color raise).
C1_FirstGroupColor ==
    /\ pc = "get_shape" =>
         LET p == Lower(Prompt)
             g == FirstMatch(ColorGroups, p)
         IN  IF g # 0 THEN color = ColorGroups[g].rgba
             ELSE color = SubSeq(Md5Digest(Utf8(p)), 1, 3) \o <<255>>
    /\ (HasPrompt /\ RaisedAt(30)) => FirstMatch(ColorGroups, Lower(Prompt)) = 0

\* C1's case: a gold keyword and a later group's keyword, no earlier one.
C1_Witness ==
    /\ pc = "get_shape"
    /\ Contains(Lower(Prompt), kw_coin)
    /\ Contains(Lower(Prompt), kw_scholar)
    /\ color = <<255, 215, 0, 255>>

\* C2: when get_shape has returned, the shape is the tag of the first matching shape rule, in the order
\* box, circle, gun, person, else default, whatever colour keywords the
\* prompt holds: "a rusty coin" gives circle, "golden lootbox" box, "golden
\* gun" gun with the gold colour, the empty prompt default.
C2_FirstRuleShape ==
    pc = "draw_shape" =>
        LET p == Lower(Prompt)
            g == FirstMatch(ShapeRules, p)
        IN  /\ shape = IF g # 0 THEN ShapeRules[g].tag ELSE "default"
            /\ Prompt = Join(<<w_a, kw_rusty, kw_coin>>) => shape = "circle"
            /\ Prompt = Join(<<kw_golden, kw_lootbox>>) => shape = "box"
            /\ Prompt = Join(<<kw_golden, kw_gun>>) =>
                    shape = "gun" /\ color = <<255, 215, 0, 255>>
            /\ Prompt = <<>> => shape = "default"

\* C2's case: "a rusty coin", a colour keyword before the shape keyword.
C2_Witness ==
    /\ HasPrompt
    /\ Prompt = Join(<<w_a, kw_rusty, kw_coin>>)
    /\ shape = "circle"
    /\ color = <<139, 69, 19, 255>>

\* C3, as claimed: get_color never ends in an error, the colour it returns
\* has red, green and blue in 0..255 and alpha 255, and get_shape returns
\* one of the five tags.
C3_ResolutionTotal ==
    /\ ~RaisedAt(30)
    /\ color # NoColor =>
         /\ Len(color) = 4
         /\ \A i \in 1..3 : color[i] \in 0..255
         /\ color[4] = 255
    /\ shape # NoShape => shape \in Tags

\* C4: the colour and the shape are those of the lower-cased prompt, and
\* those of the prompt in upper case: prompts that differ only in letter
\* case resolve alike, in the hash branch too.
C4_CaseInsensitive ==
    /\ pc = "get_shape" =>
         /\ get_color(Lower(Prompt)) = Returned(color)
         /\ get_color(Upper(Prompt)) = Returned(color)
    /\ (HasPrompt /\ RaisedAt(30)) =>
         /\ get_color(Lower(Prompt)).raised = stderr[1].exc
         /\ get_color(Upper(Prompt)).raised = stderr[1].exc
    /\ pc = "draw_shape" =>
         /\ get_shape(Lower(Prompt)) = shape
         /\ get_shape(Upper(Prompt)) = shape

\* C4's case: a prompt with upper-case letters and no keyword, whose colour
\* comes from the hash of its lower-cased form.
C4_Witness ==
    /\ pc = "draw_shape"
    /\ Prompt # Lower(Prompt)
    /\ FirstMatch(ColorGroups, Lower(Prompt)) = 0
    /\ shape = "gun"

\* C5: with fewer than two positional arguments the run prints the usage
\* message and exits with status 1, and never makes a canvas, resolves a
\* colour or a shape, or writes the output file.
C5_UsageError ==
    Len(argv) < 3 =>
        /\ img = NoImage
        /\ color = NoColor
        /\ shape = NoShape
        /\ saves = 0
        /\ file = <<>>
        /\ pc \in {"main", "exit"}
        /\ pc = "exit" => stdout = <<UsageLine>> /\ status = "1"
        /\ pc = "main" => stdout = <<>> /\ status = "running"

\* C5's case: one positional argument, the usage message printed.
C5_Witness ==
    /\ Len(argv) = 2
    /\ pc = "exit"
    /\ stdout = <<UsageLine>>
    /\ status = "1"

\* C6, as claimed: only a run with exactly two positional arguments makes
\* or writes an image.
C6_ExactlyTwoArgs ==
    (img # NoImage \/ file # <<>>) => Len(argv) = 3

\* C6, amended: only a run with at least two positional arguments makes or
\* writes an image; the first two are the output path and the prompt, and
\* the arguments after them are ignored.
C6_AtLeastTwoArgs ==
    /\ (img # NoImage \/ file # <<>>) => Len(argv) >= 3
    /\ \A i \in 1..Len(stdout) :
         stdout[i].text = "Generated" =>
            /\ stdout[i].path = argv[2]
            /\ stdout[i].prompt = argv[3]

\* C6's case: a third positional argument, and the image written.
C6_Witness ==
    /\ Len(argv) = 4
    /\ Len(file) = 1
    /\ status = "0"

C8_ConfirmationAfterSave ==
    /\ \A i \in 1..Len(stdout) :
         stdout[i].text = "Generated" =>
            /\ file = <<img>>
            /\ saves = 1
            /\ status = "0"
            /\ pc = "exit"
            /\ stdout[i].path = argv[2]
            /\ stdout[i].prompt = argv[3]
            /\ stdout[i].shape = shape
            /\ stdout[i].color = color
    /\ status = "0" => Len(stdout) = 1 /\ stdout[1].text = "Generated"
    /\ RaisedAt(79) => status = "1" /\ pc = "exit" /\ stdout = <<>> /\ file = <<>>

\* C8's case: the line printed with a prompt that is not in lower case.
C8_Witness ==
    /\ status = "0"
    /\ Len(stdout) = 1
    /\ stdout[1].prompt # Lower(stdout[1].prompt)
    /\ stdout[1].color = <<139, 69, 19, 255>>

\* The prompt holds "blacksmith" and no keyword of the colour groups 1-4.
BlacksmithDecides ==
    /\ Contains(Lower(Prompt), kw_blacksmith)
    /\ \A g \in 1..4 : ~Matches(ColorGroups, g, Lower(Prompt))

\* The prompt holds "blacksmith" and no keyword of the shape rules 1-3.
BlacksmithShapes ==
    /\ Contains(Lower(Prompt), kw_blacksmith)
    /\ \A g \in 1..3 : ~Matches(ShapeRules, g, Lower(Prompt))

\* C9, as claimed: "blacksmith" only affects the shape; once the colour
\* and the shape are resolved, a prompt holding it has shape person (no
\* box, coin, money, gun or blaster keyword present), "rusty blacksmith"
\* has person and (139, 69, 19, 255), and no colour is the fixed colour of
\* "blacksmith".
C9_BlacksmithOnlyShape ==
    /\ (pc = "draw_shape" /\ BlacksmithShapes) => shape = "person"
    /\ (pc = "draw_shape" /\ Prompt = Join(<<kw_rusty, kw_blacksmith>>)) =>
            shape = "person" /\ color = <<139, 69, 19, 255>>
    /\ (pc = "draw_shape" /\ BlacksmithDecides) => color # <<105, 105, 105, 255>>

\* C9, amended: "blacksmith" is a shape keyword and the keyword of colour
\* group 5; once the colour and the shape are resolved, a prompt holding it
\* has shape person (no box, coin, money, gun or blaster keyword present)
\* and the colour (105, 105, 105, 255) unless a keyword of the colour
\* groups 1-4 is present: "rusty blacksmith" has person and
\* (139, 69, 19, 255).
C9_BlacksmithShapeAndColor ==
    /\ (pc = "draw_shape" /\ BlacksmithShapes) => shape = "person"
    /\ (pc = "draw_shape" /\ Prompt = Join(<<kw_rusty, kw_blacksmith>>)) =>
            shape = "person" /\ color = <<139, 69, 19, 255>>
    /\ (pc = "draw_shape" /\ BlacksmithDecides) => color = <<105, 105, 105, 255>>

\* C9's case: the prompt "blacksmith" alone, resolved.
C9_Witness ==
    /\ HasPrompt
    /\ Prompt = kw_blacksmith
    /\ shape = "person"
    /\ color = <<105, 105, 105, 255>>

\* Every number among the coordinates of a draw call.
Coordinates(call) ==
    IF call.op = "polygon"
    THEN UNION {{call.xy[i][1], call.xy[i][2]} : i \in 1..Len(call.xy)}
    ELSE {call.xy[i] : i \in 1..Len(call.xy)}

\* The draw calls of each tag; a tag that is none of the first four draws
\* the default square.
ExpectedCalls(tag, c) ==
    CASE tag = "box" ->
            << [op |-> "rectangle", xy |-> <<4, 4, 27, 27>>, fill |-> c,
                outline |-> <<0, 0, 0, 255>>],
               [op |-> "rectangle", xy |-> <<6, 6, 25, 25>>, fill |-> <<>>,
                outline |-> <<255, 255, 255, 100>>] >>
      [] tag = "circle" ->
            << [op |-> "ellipse", xy |-> <<4, 4, 27, 27>>, fill |-> c,
                outline |-> <<0, 0, 0, 255>>],
               [op |-> "ellipse", xy |-> <<8, 8, 20, 20>>, fill |-> <<>>,
                outline |-> <<255, 255, 255, 100>>] >>
      [] tag = "gun" ->
            << [op |-> "polygon",
                xy |-> << <<8, 10>>, <<24, 10>>, <<24, 16>>, <<14, 16>>,
                          <<14, 24>>, <<8, 24>> >>,
                fill |-> c, outline |-> <<0, 0, 0, 255>>] >>
      [] tag = "person" ->
            << [op |-> "ellipse", xy |-> <<10, 4, 22, 16>>,
                fill |-> <<255, 220, 177, 255>>, outline |-> <<0, 0, 0, 255>>],
               [op |-> "rectangle", xy |-> <<8, 16, 24, 30>>, fill |-> c,
                outline |-> <<0, 0, 0, 255>>] >>
      [] OTHER ->
            << [op |-> "rectangle", xy |-> <<8, 8, 24, 24>>, fill |-> c,
                outline |-> <<0, 0, 0, 255>>] >>

\* C10: draw_shape issues, for each tag, exactly its fixed sequence of draw
\* calls, and the default square for a tag that is none of box, circle, gun
\* and person; at least one call is filled with the colour, and every
\* coordinate lies in 0..31.
C10_DrawCalls ==
    pc = "save" =>
        /\ img.ops = ExpectedCalls(shape, color)
        /\ \E i \in 1..Len(img.ops) : img.ops[i].fill = color
        /\ \A i \in 1..Len(img.ops) : Coordinates(img.ops[i]) \subseteq 0..31

\* C10's case: a person drawn in a colour that is not the skin tone.
C10_Witness ==
    /\ pc = "save"
    /\ shape = "person"
    /\ color = <<139, 69, 19, 255>>
    /\ Len(img.ops) = 2
    /\ img.ops[1].fill = <<255, 220, 177, 255>>
    /\ img.ops[2].fill = color

====
